---- MODULE Spec2Model ----
(***************************************************************************)
(* Model of the customs knowledge base retrieval and chunking core:        *)
(*   - SemanticSearch.search / QdrantStore.search   (SpecSearch)           *)
(*   - chunk_text / EmbeddingGenerator.chunk_and_embed (SpecChunk)         *)
(*   - EmbeddingGenerator.embed_batch                  (SpecEmbed)         *)
(*   - PostgresStore through sessions   (SpecStore, SpecStoreConcurrent,   *)
(*                                       SpecRunRecords)                   *)
(*   - BaseIngester.run for both pipelines      (SpecHtsus, SpecIngest)    *)
(***************************************************************************)
EXTENDS Integers, Sequences, FiniteSets, TLC

(***************************************************************************)
(* Bounds of the model.                                                    *)
(***************************************************************************)
MaxLimit == 3
MaxTextLen == 7
MaxChunkSize == 3
MaxChunks == 6
MaxTexts == 3
MaxBatchSize == 3
MaxRuns == 2
MaxRows == 2
MaxIndent == 2
MaxItems == 2
MaxRowId == 3
MaxDate == 3
MaxNormLen == 5
MaxRetries == 3
MaxPages == 2

(***************************************************************************)
(* Program constants (src/config/settings.py).                             *)
(***************************************************************************)
DefaultChunkSize == 512
DefaultChunkOverlap == 50
BatchSize == 32

VARIABLES
    \* ---- stores ----
    qdrant_points,    \* the vector index: a set of points (id, payload)
    documents,        \* the relational documents table: rows (id, document_number)
    \* ---- one SemanticSearch.search call ----
    search_pc,        \* position of the call
    limit,            \* arguments of the call
    hts_codes,
    agencies,
    source,
    query_filter,     \* QdrantStore.search: the conditions of Filter(must=...)
    qdrant_results,   \* what QdrantStore.search returned
    cand_idx,         \* position of the hydration loop in qdrant_results
    seen_documents,
    results,
    search_error,     \* which collaborator failed during the call
    calls,            \* collaborator calls of the current search, in order
    \* ---- one HybridQuery call ----
    hybrid_pc,
    entry_point,      \* which HybridQuery method was called
    start_date,       \* arguments of the call
    end_date,
    hybrid_limit,
    hts_number,
    agency_slug,
    document_numbers, \* search_with_date_filter: numbers of the documents in range
    hybrid_results,   \* what the method returns
    \* ---- one normalize_text call ----
    norm_pc,
    norm_text,        \* the argument
    norm_result,      \* the returned string
    \* ---- one FederalRegisterClient.fetch_all_documents call ----
    fetch_pc,
    max_retries,      \* settings.max_retries
    page,
    total_pages,
    attempt_number,   \* attempts of fetch_documents for the current page
    outcomes,         \* history: how each attempt for the current page ended
    \* ---- one chunk_text / chunk_and_embed call ----
    chunk_pc,
    caller,           \* who called chunk_text
    text,
    passed_chunk_size, \* the arguments as the caller passed them
    passed_overlap,
    chunk_size,
    overlap,
    words,
    start,
    chunks,
    embedded,         \* return value of chunk_and_embed
    \* ---- one EmbeddingGenerator.embed_batch call ----
    embed_pc,
    embed_texts,      \* the argument
    batch_size,       \* self.batch_size
    embeddings,       \* the returned list
    \* ---- the relational store besides documents ----
    agencies_table,   \* rows (id, slug, name)
    hts_codes_table,  \* rows (id, hts_number, indent_level, parent_hts_number, description)
    ingestion_runs,   \* rows (id, source, status, documents_processed)
    next_id,          \* the id sequence of every table
    sessions,         \* per store session: its state and its uncommitted rows
    store_call,       \* per store session: the store operation in progress
    \* ---- one BaseIngester.run ----
    ingester,         \* which pipeline runs
    run_pc,
    run_count,        \* runs started so far
    raw_data,         \* what fetch returned
    transformed_data, \* what transform returned (the list under 'hts_codes' / 'documents')
    item_idx,         \* position of load's loop
    ingestion_run_id, \* ingestion_run.id in load
    processed,
    errors,           \* load's local list of error messages
    attempts,         \* history: how each iteration of load's loop ended
    load_result,      \* what load returned
    stats             \* what run returns

searchVars == <<search_pc, limit, hts_codes, agencies, source, query_filter,
                qdrant_results, cand_idx, seen_documents, results,
                search_error, calls>>
storeVars == <<qdrant_points, documents>>
dbVars == <<agencies_table, hts_codes_table, ingestion_runs, next_id, sessions, store_call>>
runVars == <<ingester, run_pc, run_count, raw_data, transformed_data, item_idx,
             ingestion_run_id, processed, errors, attempts, load_result, stats>>
chunkVars == <<chunk_pc, caller, text, passed_chunk_size, passed_overlap,
               chunk_size, overlap, words, start,
               chunks, embedded>>
embedVars == <<embed_pc, embed_texts, batch_size, embeddings>>
hybridVars == <<hybrid_pc, entry_point, start_date, end_date, hybrid_limit,
                hts_number, agency_slug, document_numbers, hybrid_results>>
normVars == <<norm_pc, norm_text, norm_result>>
fetchVars == <<fetch_pc, max_retries, page, total_pages, attempt_number, outcomes>>
vars == <<storeVars, searchVars, chunkVars, embedVars, dbVars, runVars, hybridVars,
          normVars, fetchVars>>

\* What the actions of one subsystem leave alone.
otherThanSearch == <<storeVars, chunkVars, embedVars, dbVars, runVars, hybridVars,
                     normVars, fetchVars>>
otherThanChunk == <<storeVars, searchVars, embedVars, dbVars, runVars, hybridVars,
                    normVars, fetchVars>>
otherThanEmbed == <<storeVars, searchVars, chunkVars, dbVars, runVars, hybridVars,
                    normVars, fetchVars>>
otherThanStore == <<searchVars, chunkVars, embedVars, hybridVars, normVars, fetchVars>>
otherThanHybrid == <<storeVars, chunkVars, embedVars, dbVars, runVars, normVars, fetchVars>>
otherThanNorm == <<storeVars, searchVars, chunkVars, embedVars, dbVars, runVars,
                   hybridVars, fetchVars>>
otherThanFetch == <<storeVars, searchVars, chunkVars, embedVars, dbVars, runVars,
                    hybridVars, normVars>>

(***************************************************************************)
(* Small universes for the inputs.                                         *)
(***************************************************************************)
\* Python's None / SQL NULL.
None == "None"

\* chunk_size = None / overlap = None
NotSupplied == -1

\* row.get(column): None when the row has no such column
RowGet(row, column) == IF column \in DOMAIN row THEN row[column] ELSE None

\* Publication dates, as day numbers; NoDate is the NULL of the date column.
Dates == 1..MaxDate
NoDate == 0

\* date.isoformat(); NoIsoDate is the None that stands for a missing date.
isoformat(d) == <<"iso", d>>
NoIsoDate == <<>>

\* document.publication_date, NULL where the model keeps no date for the row
PublicationDate(document) ==
    IF "publication_date" \in DOMAIN document THEN document.publication_date
    ELSE NoDate

\* document.publication_date.isoformat() if document.publication_date else None
PublicationDateOut(document) ==
    IF PublicationDate(document) = NoDate THEN NoIsoDate
    ELSE isoformat(PublicationDate(document))

DocIds == {1, 2, 3}
Codes == {"0406.10.00", "0406.30.00"}
Agencies == {"cbp", "ustr"}
Sources == {"federal_register", "htsus"}
NoSource == ""

\* document_number of the row with a given id (unique per row: the column is
\* declared unique=True)
DocumentNumber(id) == <<"FR", id>>

\* The denormalized per-document part of a chunk payload.
DocPayload(id) ==
    CASE id = 1 -> [hts_codes |-> {"0406.10.00"}, agencies |-> {"cbp"},
                    source |-> "federal_register"]
      [] id = 2 -> [hts_codes |-> {"0406.10.00", "0406.30.00"},
                    agencies |-> {"cbp", "ustr"}, source |-> "federal_register"]
      [] OTHER  -> [hts_codes |-> {}, agencies |-> {"ustr"}, source |-> "htsus"]

\* One point per chunk of a document (create_document_points).
Point(id, chunk_index) ==
    [id |-> <<id, chunk_index>>,
     payload |-> [document_id |-> id,
                  chunk_index |-> chunk_index,
                  hts_codes |-> DocPayload(id).hts_codes,
                  agencies |-> DocPayload(id).agencies,
                  source |-> DocPayload(id).source]]

\* Sequences without repetition of at most n elements of S.
RECURSIVE SeqsUpTo(_, _)
SeqsUpTo(S, n) ==
    IF n <= 0 \/ S = {} THEN {<<>>}
    ELSE {<<>>} \cup UNION {{<<x>> \o t : t \in SeqsUpTo(S \ {x}, n - 1)} : x \in S}

\* Argument lists as the callers pass them (None and [] are both falsy).
ListsOver(S) == SeqsUpTo(S, 2)

(***************************************************************************)
(* QdrantStore.search                                                      *)
(***************************************************************************)
FieldCondition(key, value) == [key |-> key, value |-> value]

\* The conditions list built from the optional filters, one FieldCondition
\* per supplied value, in the order hts_codes, agencies, source.
BuildConditions(hts, ags, src) ==
    [i \in 1..Len(hts) |-> FieldCondition("hts_codes", hts[i])]
    \o [i \in 1..Len(ags) |-> FieldCondition("agencies", ags[i])]
    \o (IF src # NoSource THEN <<FieldCondition("source", src)>> ELSE <<>>)

\* MatchValue on a payload field: a list field matches when it contains the
\* value, a scalar field when it equals it.
MatchesCondition(payload, cond) ==
    CASE cond.key = "hts_codes" -> cond.value \in payload.hts_codes
      [] cond.key = "agencies"  -> cond.value \in payload.agencies
      [] OTHER                  -> payload.source = cond.value

\* Filter(must=conditions): every condition has to match; no filter (None)
\* when there is no condition.
SatisfiesFilter(payload, must) ==
    \A i \in 1..Len(must) : MatchesCondition(payload, must[i])

\* The number of candidates SemanticSearch.search asks the index for.
RequestedCandidates_OverFetch(l) == l * 2
RequestedCandidates(l) == l

\* What client.search can return: at most `n` distinct points that satisfy
\* the filter, in descending score order.  Scores depend on the query vector
\* and the threshold, so any such sequence is possible.
ClientSearch(points, must, n) ==
    SeqsUpTo({p \in points : SatisfiesFilter(p.payload, must)}, n)

\* `except Exception` around client.search: the error is logged, [] returned.
SearchErrorCaught_Propagates == FALSE
SearchErrorCaught == TRUE

(***************************************************************************)
(* PostgresStore.get_document_by_id                                        *)
(***************************************************************************)
\* query(Document).filter_by(id=document_id).first(): the matching rows, of
\* which there is at most one (id is the primary key); the empty set is None.
get_document_by_id(document_id) == {d \in documents : d.id = document_id}

(***************************************************************************)
(* SemanticSearch.search, step by step                                     *)
(***************************************************************************)
IsDuplicate_Never(document_id, seen) == FALSE
IsDuplicate(document_id, seen) == document_id \in seen

\* search(query, limit, score_threshold, hts_codes, agencies, source) is
\* entered; HybridQuery.multi_filter_search passes its arguments through.
CallSearch(l, hts, ags, src) ==
    /\ search_pc = "idle"
    /\ search_pc' = "embed"
    /\ limit' = l
    /\ hts_codes' = hts
    /\ agencies' = ags
    /\ source' = src
    /\ UNCHANGED <<query_filter, qdrant_results, cand_idx, seen_documents,
                   results, search_error, calls>>
    /\ UNCHANGED otherThanSearch

\* query_embedding = self.embedding_generator.embed_text(query): no handler
\* surrounds the call, an exception of the model leaves search().
EmbedQuery(ok) ==
    /\ search_pc = "embed"
    /\ calls' = Append(calls, "embed_text")
    /\ IF ok
       THEN /\ search_pc' = "search"
            /\ UNCHANGED search_error
       ELSE /\ search_pc' = "raised"
            /\ search_error' = "embedding"
    /\ UNCHANGED <<limit, hts_codes, agencies, source, query_filter,
                   qdrant_results, cand_idx, seen_documents, results>>
    /\ UNCHANGED otherThanSearch

\* qdrant_results = self.qdrant_store.search(...), then the early return on
\* an empty candidate list.
VectorSearch(failed, hits) ==
    /\ search_pc = "search"
    /\ query_filter' = BuildConditions(hts_codes, agencies, source)
    /\ failed => hits = <<>>
    /\ calls' = Append(calls, "qdrant_search")
    /\ search_error' = IF failed THEN "qdrant" ELSE search_error
    /\ IF failed /\ ~SearchErrorCaught
       THEN /\ search_pc' = "raised"
            /\ UNCHANGED <<qdrant_results, results>>
       ELSE /\ qdrant_results' = hits
            /\ IF hits = <<>>
               THEN /\ search_pc' = "done"
                    /\ results' = <<>>
               ELSE /\ search_pc' = "hydrate"
                    /\ UNCHANGED results
    /\ cand_idx' = 1
    /\ seen_documents' = {}
    /\ UNCHANGED <<limit, hts_codes, agencies, source>>
    /\ UNCHANGED otherThanSearch

\* One iteration of `for qdrant_result in qdrant_results`.
HydrateCandidate ==
    /\ search_pc = "hydrate"
    /\ LET qdrant_result == qdrant_results[cand_idx]
           document_id == qdrant_result.payload.document_id
           document == get_document_by_id(document_id)
       IN IF IsDuplicate(document_id, seen_documents)
          THEN UNCHANGED <<seen_documents, results, calls>>
          ELSE /\ seen_documents' = seen_documents \cup {document_id}
               /\ calls' = Append(calls, "get_document_by_id")
               /\ IF document # {}
                  THEN results' = Append(results,
                           [document_number |-> (CHOOSE d \in document : TRUE).document_number,
                            publication_date |->
                                PublicationDateOut(CHOOSE d \in document : TRUE),
                            matched_chunk |-> qdrant_result.id])
                  ELSE UNCHANGED results
    /\ cand_idx' = cand_idx + 1
    /\ search_pc' = IF cand_idx = Len(qdrant_results) THEN "done" ELSE "hydrate"
    /\ UNCHANGED <<limit, hts_codes, agencies, source, query_filter,
                   qdrant_results, search_error>>
    /\ UNCHANGED otherThanSearch

\* The call has returned (or raised); the engine keeps no state across calls.
SearchReturn ==
    /\ search_pc \in {"done", "raised"}
    /\ search_pc' = "idle"
    /\ limit' = 1
    /\ hts_codes' = <<>>
    /\ agencies' = <<>>
    /\ source' = NoSource
    /\ query_filter' = <<>>
    /\ qdrant_results' = <<>>
    /\ cand_idx' = 1
    /\ seen_documents' = {}
    /\ results' = <<>>
    /\ search_error' = "none"
    /\ calls' = <<>>
    /\ UNCHANGED otherThanSearch

TableNames == {"documents", "agencies", "hts_codes", "ingestion_runs"}
NoRows == [t \in TableNames |-> {}]

\* The sessions SessionLocal() hands out.
SessionIds == {1, 2}
NoCall == [pc |-> "idle", op |-> "none", tbl |-> "none", data |-> None,
           found |-> {}, result |-> 0]

\* An empty relational store with no session open.
DbIdle ==
    /\ agencies_table = {}
    /\ hts_codes_table = {}
    /\ ingestion_runs = {}
    /\ next_id = [t \in TableNames |-> 1]
    /\ sessions = [s \in SessionIds |-> [state |-> "closed", pending |-> NoRows]]
    /\ store_call = [s \in SessionIds |-> NoCall]

NoStats == [status |-> "none", records_processed |-> 0, errors |-> <<>>]

RunIdle ==
    /\ ingester = "none"
    /\ run_pc = "idle"
    /\ run_count = 0
    /\ raw_data = <<>>
    /\ transformed_data = <<>>
    /\ item_idx = 1
    /\ ingestion_run_id = 0
    /\ processed = 0
    /\ errors = <<>>
    /\ attempts = <<>>
    /\ load_result = FALSE
    /\ stats = NoStats

ChunkIdle ==
    /\ chunk_pc = "idle"
    /\ caller = "none"
    /\ text = <<>>
    /\ passed_chunk_size = NotSupplied
    /\ passed_overlap = NotSupplied
    /\ chunk_size = 1
    /\ overlap = 0
    /\ words = <<>>
    /\ start = 0
    /\ chunks = <<>>
    /\ embedded = <<>>

EmbedIdle ==
    /\ embed_pc = "idle"
    /\ embed_texts = <<>>
    /\ batch_size = 1
    /\ embeddings = <<>>

NormIdle ==
    /\ norm_pc = "idle"
    /\ norm_text = <<>>
    /\ norm_result = <<>>

\* total_pages = None
NoTotal == -1

FetchIdle ==
    /\ fetch_pc = "idle"
    /\ max_retries = 1
    /\ page = 1
    /\ total_pages = NoTotal
    /\ attempt_number = 0
    /\ outcomes = <<>>

HybridIdle ==
    /\ hybrid_pc = "idle"
    /\ entry_point = "none"
    /\ start_date = 1
    /\ end_date = 1
    /\ hybrid_limit = 1
    /\ hts_number = None
    /\ agency_slug = None
    /\ document_numbers = {}
    /\ hybrid_results = <<>>

SearchIdle ==
    /\ search_pc = "idle"
    /\ limit = 1
    /\ hts_codes = <<>>
    /\ agencies = <<>>
    /\ source = NoSource
    /\ query_filter = <<>>
    /\ qdrant_results = <<>>
    /\ cand_idx = 1
    /\ seen_documents = {}
    /\ results = <<>>
    /\ search_error = "none"
    /\ calls = <<>>

\* The stores a search runs against: two chunks of documents 1 and 2, one of
\* document 3; any set of the documents may (still) exist in the relational
\* store.
InitSearch ==
    /\ qdrant_points = {Point(1, 0), Point(1, 1), Point(2, 0), Point(2, 1), Point(3, 0)}
    /\ \E existing \in SUBSET DocIds :
          documents = {[id |-> d, document_number |-> DocumentNumber(d)] : d \in existing}
    /\ SearchIdle
    /\ ChunkIdle
    /\ EmbedIdle
    /\ DbIdle
    /\ RunIdle
    /\ HybridIdle
    /\ NormIdle
    /\ FetchIdle

NextSearch ==
    \/ /\ search_pc = "idle"
       /\ \E l \in 1..MaxLimit, hts \in ListsOver(Codes), ags \in ListsOver(Agencies),
             src \in Sources \cup {NoSource} : CallSearch(l, hts, ags, src)
    \/ \E ok \in BOOLEAN : EmbedQuery(ok)
    \/ /\ search_pc = "search"
       /\ \E failed \in BOOLEAN,
             hits \in ClientSearch(qdrant_points,
                                   BuildConditions(hts_codes, agencies, source),
                                   RequestedCandidates(limit)) :
             VectorSearch(failed, hits)
    \/ HydrateCandidate
    \/ SearchReturn

SpecSearch == InitSearch /\ [][NextSearch]_vars

(***************************************************************************)
(* Text: a string is a sequence of one-character strings.                  *)
(***************************************************************************)
Alphabet == {"a", "b", " "}
Whitespace == {" ", "\n"}
\* [\w\s\.\,\;\:\!\?\-\(\)]: the characters normalize_text keeps.
AllowedChars == {"a", "b", " ", ".", ",", ";", ":", "!", "?", "-", "(", ")"}

Texts == UNION {[1..n -> Alphabet] : n \in 0..MaxTextLen}

Min(a, b) == IF a < b THEN a ELSE b
Max(a, b) == IF a > b THEN a ELSE b

\* Python's s[a:b] for a list s (indices from 0, negative indices count from
\* the end, out-of-range indices are clamped).
PySlice(s, a, b) ==
    LET n == Len(s)
        lo == IF a < 0 THEN Max(a + n, 0) ELSE Min(a, n)
        hi == IF b < 0 THEN Max(b + n, 0) ELSE Min(b, n)
    IN IF lo >= hi THEN <<>> ELSE SubSeq(s, lo + 1, hi)

\* str.split(): the maximal runs of non-whitespace characters.
RECURSIVE SplitFrom(_, _, _, _)
SplitFrom(t, i, cur, acc) ==
    IF i > Len(t)
    THEN IF cur = <<>> THEN acc ELSE Append(acc, cur)
    ELSE IF t[i] \in Whitespace
         THEN SplitFrom(t, i + 1, <<>>, IF cur = <<>> THEN acc ELSE Append(acc, cur))
         ELSE SplitFrom(t, i + 1, Append(cur, t[i]), acc)

Split(t) == SplitFrom(t, 1, <<>>, <<>>)

\* ' '.join(ws)
RECURSIVE Join(_)
Join(ws) ==
    IF ws = <<>> THEN <<>>
    ELSE IF Len(ws) = 1 THEN ws[1]
    ELSE ws[1] \o <<" ">> \o Join(Tail(ws))

\* re.sub(r'\s+', ' ', text): every run of whitespace becomes one space.
RECURSIVE CollapseFrom(_, _)
CollapseFrom(t, i) ==
    IF i > Len(t) THEN <<>>
    ELSE IF t[i] \in Whitespace
         THEN (IF i > 1 /\ t[i - 1] \in Whitespace THEN <<>> ELSE <<" ">>)
              \o CollapseFrom(t, i + 1)
         ELSE <<t[i]>> \o CollapseFrom(t, i + 1)

IsAllowedChar(c) == c \in AllowedChars

\* str.strip()
RECURSIVE Strip(_)
Strip(t) ==
    IF t = <<>> THEN <<>>
    ELSE IF t[1] \in Whitespace THEN Strip(Tail(t))
    ELSE IF t[Len(t)] \in Whitespace THEN Strip(SubSeq(t, 1, Len(t) - 1))
    ELSE t

normalize_text(t) ==
    IF t = <<>> THEN <<>>
    ELSE Strip(SelectSeq(CollapseFrom(t, 1), IsAllowedChar))

(***************************************************************************)
(* normalize_text as a call (SpecNormalize)                                *)
(***************************************************************************)
\* Raw text: a letter, the two kinds of whitespace and a character outside
\* the whitelist.
RawAlphabet == {"a", " ", "\n", "@"}
RawTexts == UNION {[1..n -> RawAlphabet] : n \in 0..MaxNormLen}

CallNormalizeText(t) ==
    /\ norm_pc = "idle"
    /\ norm_pc' = "called"
    /\ norm_text' = t
    /\ UNCHANGED norm_result
    /\ UNCHANGED otherThanNorm

NormalizeTextReturn ==
    /\ norm_pc = "called"
    /\ norm_pc' = "done"
    /\ norm_result' = normalize_text(norm_text)
    /\ UNCHANGED norm_text
    /\ UNCHANGED otherThanNorm

NormalizeReset ==
    /\ norm_pc = "done"
    /\ norm_pc' = "idle"
    /\ norm_text' = <<>>
    /\ norm_result' = <<>>
    /\ UNCHANGED otherThanNorm

InitNormalize ==
    /\ qdrant_points = {}
    /\ documents = {}
    /\ SearchIdle
    /\ ChunkIdle
    /\ EmbedIdle
    /\ DbIdle
    /\ RunIdle
    /\ HybridIdle
    /\ NormIdle
    /\ FetchIdle

NextNormalize ==
    \/ /\ norm_pc = "idle"
       /\ \E t \in RawTexts : CallNormalizeText(t)
    \/ NormalizeTextReturn
    \/ NormalizeReset

SpecNormalize == InitNormalize /\ [][NextNormalize]_vars

(***************************************************************************)
(* FederalRegisterClient.fetch_documents under retry_on_http_error, called *)
(* by fetch_all_documents (SpecFetch)                                      *)
(***************************************************************************)
\* How one execution of fetch_documents can end: it returns response.json(),
\* or client.get / raise_for_status / json raise.
RetriedErrors == {"ConnectError", "TimeoutException", "HTTPStatusError"}
Outcomes == {"ok", "OtherError"} \cup RetriedErrors

\* retry_if_exception_type((ConnectError, TimeoutException, HTTPStatusError))
ShouldRetry(outcome) == outcome \in RetriedErrors

\* stop_after_attempt(n): stop when attempt_number >= n
StopAfterAttempt_OneMore(attempt, n) == attempt > n
StopAfterAttempt(attempt, n) == attempt >= n

\* fetch_all_documents is entered: page = 1, total_pages = None.
CallFetchAllDocuments(n) ==
    /\ fetch_pc = "idle"
    /\ fetch_pc' = "attempt"
    /\ max_retries' = n
    /\ page' = 1
    /\ total_pages' = NoTotal
    /\ attempt_number' = 0
    /\ outcomes' = <<>>
    /\ UNCHANGED otherThanFetch

\* One execution of fetch_documents inside the retry loop.  A result is
\* returned; an exception that is not retried, or a retried one once the
\* stop condition holds, is raised to the caller (reraise=True); otherwise
\* the loop waits and tries again.
AttemptFetch(outcome) ==
    /\ fetch_pc = "attempt"
    /\ attempt_number' = attempt_number + 1
    /\ outcomes' = Append(outcomes, outcome)
    /\ fetch_pc' = IF outcome = "ok" THEN "fetched"
                   ELSE IF ~ShouldRetry(outcome) THEN "raised"
                   ELSE IF StopAfterAttempt(attempt_number + 1, max_retries) THEN "raised"
                   ELSE "wait"
    /\ UNCHANGED <<max_retries, page, total_pages>>
    /\ UNCHANGED otherThanFetch

\* wait_exponential(...): the sleep before the next attempt.
Backoff ==
    /\ fetch_pc = "wait"
    /\ fetch_pc' = "attempt"
    /\ UNCHANGED <<max_retries, page, total_pages, attempt_number, outcomes>>
    /\ UNCHANGED otherThanFetch

\* fetch_all_documents after a page arrived: total_pages is taken from the
\* first response; the loop ends when page >= total_pages, otherwise the
\* next page is fetched under a new retry loop.
NextPage(response_total_pages) ==
    /\ fetch_pc = "fetched"
    /\ LET total == IF total_pages = NoTotal THEN response_total_pages ELSE total_pages
       IN /\ total_pages' = total
          /\ IF page >= total
             THEN /\ fetch_pc' = "returned"
                  /\ UNCHANGED <<page, attempt_number, outcomes>>
             ELSE /\ fetch_pc' = "attempt"
                  /\ page' = page + 1
                  /\ attempt_number' = 0
                  /\ outcomes' = <<>>
    /\ UNCHANGED max_retries
    /\ UNCHANGED otherThanFetch

\* fetch_all_documents has returned or raised.
FetchReset ==
    /\ fetch_pc \in {"returned", "raised"}
    /\ fetch_pc' = "idle"
    /\ max_retries' = 1
    /\ page' = 1
    /\ total_pages' = NoTotal
    /\ attempt_number' = 0
    /\ outcomes' = <<>>
    /\ UNCHANGED otherThanFetch

InitFetch ==
    /\ qdrant_points = {}
    /\ documents = {}
    /\ SearchIdle
    /\ ChunkIdle
    /\ EmbedIdle
    /\ DbIdle
    /\ RunIdle
    /\ HybridIdle
    /\ NormIdle
    /\ FetchIdle

NextFetch ==
    \/ \E n \in 0..MaxRetries : CallFetchAllDocuments(n)
    \/ \E outcome \in Outcomes : AttemptFetch(outcome)
    \/ Backoff
    \/ \E response_total_pages \in 0..MaxPages : NextPage(response_total_pages)
    \/ FetchReset

SpecFetch == InitFetch /\ [][NextFetch]_vars

(***************************************************************************)
(* EmbeddingGenerator.embed_batch                                          *)
(***************************************************************************)
\* model.encode: the vector of a text, a function of that text.
Encode(t) == [vector_of |-> t]

\* normalized_texts[i:i + self.batch_size]
BatchSlice_DropLast(normalized_texts, i, size) ==
    PySlice(normalized_texts, i, i + size - 1)
BatchSlice(normalized_texts, i, size) ==
    PySlice(normalized_texts, i, i + size)

\* for i in range(0, len(normalized_texts), self.batch_size): ... extend(...)
RECURSIVE EmbedFrom(_, _, _)
EmbedFrom(normalized_texts, i, size) ==
    IF i >= Len(normalized_texts) THEN <<>>
    ELSE LET batch == BatchSlice(normalized_texts, i, size)
         IN [k \in 1..Len(batch) |-> Encode(batch[k])]
            \o EmbedFrom(normalized_texts, i + size, size)

\* embed_batch of a generator whose batch_size attribute is `size`
embed_batch_sized(texts, size) ==
    EmbedFrom([i \in 1..Len(texts) |-> normalize_text(texts[i])], 0, size)

\* embed_batch of the generator built from the settings
embed_batch(texts) == embed_batch_sized(texts, BatchSize)

\* list(zip(a, b))
Zip(a, b) == [i \in 1..Min(Len(a), Len(b)) |-> <<a[i], b[i]>>]

(***************************************************************************)
(* chunk_text, step by step, and chunk_and_embed around it                 *)
(***************************************************************************)
\* `x or default`: None and 0 are both falsy
OrDefault(x, default) == IF x \in {NotSupplied, 0} THEN default ELSE x

\* Optional[int] arguments of chunk_and_embed
OptionalSizes == {NotSupplied} \cup 0..MaxChunkSize

\* The single chunk returned for a text of at most chunk_size words.
ShortTextChunks_Rejoined(t, ws) == <<Join(ws)>>
ShortTextChunks(t, ws) == <<t>>

\* chunk_text(text, chunk_size, overlap) is called directly.
CallChunkText(t, cs, ov) ==
    /\ chunk_pc = "idle"
    /\ chunk_pc' = "entry"
    /\ caller' = "chunk_text"
    /\ text' = t
    /\ passed_chunk_size' = cs
    /\ passed_overlap' = ov
    /\ chunk_size' = cs
    /\ overlap' = ov
    /\ UNCHANGED <<words, start, chunks, embedded>>
    /\ UNCHANGED otherThanChunk

\* chunk_and_embed(text, chunk_size, overlap): `or` replaces every falsy
\* argument by the setting, then chunk_text is called.
CallChunkAndEmbed(t, cs, ov) ==
    /\ chunk_pc = "idle"
    /\ chunk_pc' = "entry"
    /\ caller' = "chunk_and_embed"
    /\ text' = t
    /\ passed_chunk_size' = cs
    /\ passed_overlap' = ov
    /\ chunk_size' = OrDefault(cs, DefaultChunkSize)
    /\ overlap' = OrDefault(ov, DefaultChunkOverlap)
    /\ UNCHANGED <<words, start, chunks, embedded>>
    /\ UNCHANGED otherThanChunk

\* chunk_text up to the loop: the two early returns.
ChunkTextEntry ==
    /\ chunk_pc = "entry"
    /\ IF text = <<>>
       THEN /\ chunks' = <<>>
            /\ chunk_pc' = "return"
            /\ UNCHANGED <<words, start>>
       ELSE /\ words' = Split(text)
            /\ start' = 0
            /\ IF Len(words') <= chunk_size
               THEN /\ chunks' = ShortTextChunks(text, words')
                    /\ chunk_pc' = "return"
               ELSE /\ chunks' = <<>>
                    /\ chunk_pc' = "loop"
    /\ UNCHANGED <<caller, text, passed_chunk_size, passed_overlap, chunk_size, overlap, embedded>>
    /\ UNCHANGED otherThanChunk

\* One evaluation of `while start < len(words)` and of the loop body.
ChunkTextLoop ==
    /\ chunk_pc = "loop"
    /\ Len(chunks) < MaxChunks
    /\ IF start < Len(words)
       THEN LET end == start + chunk_size
                chunk_words == PySlice(words, start, end)
            IN /\ chunks' = Append(chunks, Join(chunk_words))
               /\ start' = end - overlap
               /\ chunk_pc' = IF start' >= Len(words) THEN "return" ELSE "loop"
       ELSE /\ chunk_pc' = "return"
            /\ UNCHANGED <<chunks, start>>
    /\ UNCHANGED <<caller, text, passed_chunk_size, passed_overlap, chunk_size, overlap, words, embedded>>
    /\ UNCHANGED otherThanChunk

\* chunk_text returns to a direct caller.
ChunkTextReturn ==
    /\ chunk_pc = "return"
    /\ caller = "chunk_text"
    /\ chunk_pc' = "done"
    /\ UNCHANGED <<caller, text, passed_chunk_size, passed_overlap, chunk_size, overlap, words, start, chunks, embedded>>
    /\ UNCHANGED otherThanChunk

\* chunk_text returns into chunk_and_embed, which embeds the chunks.
ChunkAndEmbedFinish ==
    /\ chunk_pc = "return"
    /\ caller = "chunk_and_embed"
    /\ embedded' = IF chunks = <<>> THEN <<>> ELSE Zip(chunks, embed_batch(chunks))
    /\ chunk_pc' = "done"
    /\ UNCHANGED <<caller, text, passed_chunk_size, passed_overlap, chunk_size, overlap, words, start, chunks>>
    /\ UNCHANGED otherThanChunk

\* The caller has its result; the next call starts from scratch.
ChunkReset ==
    /\ chunk_pc = "done"
    /\ chunk_pc' = "idle"
    /\ caller' = "none"
    /\ text' = <<>>
    /\ passed_chunk_size' = NotSupplied
    /\ passed_overlap' = NotSupplied
    /\ chunk_size' = 1
    /\ overlap' = 0
    /\ words' = <<>>
    /\ start' = 0
    /\ chunks' = <<>>
    /\ embedded' = <<>>
    /\ UNCHANGED otherThanChunk

InitChunk ==
    /\ qdrant_points = {}
    /\ documents = {}
    /\ SearchIdle
    /\ ChunkIdle
    /\ EmbedIdle
    /\ DbIdle
    /\ RunIdle
    /\ HybridIdle
    /\ NormIdle
    /\ FetchIdle

NextChunk ==
    \/ /\ chunk_pc = "idle"
       /\ \E t \in Texts, cs \in 1..MaxChunkSize, ov \in 0..MaxChunkSize :
             CallChunkText(t, cs, ov)
    \/ /\ chunk_pc = "idle"
       /\ \E t \in Texts, cs \in OptionalSizes, ov \in OptionalSizes :
             CallChunkAndEmbed(t, cs, ov)
    \/ ChunkTextEntry
    \/ ChunkTextLoop
    \/ ChunkTextReturn
    \/ ChunkAndEmbedFinish
    \/ ChunkReset

SpecChunk == InitChunk /\ [][NextChunk]_vars

(***************************************************************************)
(* EmbeddingGenerator.embed_batch as an operation of its own (SpecEmbed)   *)
(***************************************************************************)
\* Texts handed to embed_batch: empty, plain, and ones that normalization
\* changes.
EmbedTexts == {<<>>, <<"a">>, <<" ", "b">>, <<"a", " ", " ", "b">>}

\* embed_batch(texts) on a generator with batch_size = size.
CallEmbedBatch(texts, size) ==
    /\ embed_pc = "idle"
    /\ embed_pc' = "done"
    /\ embed_texts' = texts
    /\ batch_size' = size
    /\ embeddings' = embed_batch_sized(texts, size)
    /\ UNCHANGED otherThanEmbed

EmbedReset ==
    /\ embed_pc = "done"
    /\ embed_pc' = "idle"
    /\ embed_texts' = <<>>
    /\ batch_size' = 1
    /\ embeddings' = <<>>
    /\ UNCHANGED otherThanEmbed

InitEmbed ==
    /\ qdrant_points = {}
    /\ documents = {}
    /\ SearchIdle
    /\ ChunkIdle
    /\ EmbedIdle
    /\ DbIdle
    /\ RunIdle
    /\ HybridIdle
    /\ NormIdle
    /\ FetchIdle

NextEmbed ==
    \/ /\ embed_pc = "idle"
       /\ \E texts \in UNION {[1..n -> EmbedTexts] : n \in 0..MaxTexts},
             size \in 1..MaxBatchSize :
             CallEmbedBatch(texts, size)
    \/ EmbedReset

SpecEmbed == InitEmbed /\ [][NextEmbed]_vars

(***************************************************************************)
(* PostgresStore over a SQLAlchemy session                                 *)
(*                                                                         *)
(* A session sees the committed rows overlaid with its own uncommitted     *)
(* rows.  A store operation is a function from the session it is given     *)
(* (ctx: state, pending rows, id sequences) to the session afterwards, the *)
(* value returned and whether it raised.                                   *)
(***************************************************************************)
Committed ==
    [documents |-> documents, agencies |-> agencies_table,
     hts_codes |-> hts_codes_table, ingestion_runs |-> ingestion_runs]

Ctx(s) == [state |-> sessions[s].state, pending |-> sessions[s].pending,
           next_id |-> next_id]

Overlay(base, pend) == pend \cup {r \in base : \A q \in pend : q.id # r.id}
Rows(db, ctx, tbl) == Overlay(db[tbl], ctx.pending[tbl])

\* nullable=False columns
NotNullOk(tbl, r) ==
    CASE tbl = "documents" -> r.document_number # None /\ r.title # None
      [] tbl = "agencies" -> r.slug # None /\ r.name # None
      [] tbl = "hts_codes" -> r.hts_number # None /\ r.description # None
      [] OTHER -> r.source # None /\ r.status # None

\* unique=True columns (the primary key for ingestion_runs)
NaturalKey(tbl, r) ==
    CASE tbl = "documents" -> r.document_number
      [] tbl = "agencies" -> r.slug
      [] tbl = "hts_codes" -> r.hts_number
      [] OTHER -> r.id

\* What the database checks when the session's rows are written.
ConstraintsOk(db, ctx) ==
    \A tbl \in TableNames :
        \A r \in ctx.pending[tbl] :
            /\ NotNullOk(tbl, r)
            /\ \A q \in Rows(db, ctx, tbl) :
                  q.id # r.id => NaturalKey(tbl, q) # NaturalKey(tbl, r)

Returned(ctx, value) == [ctx |-> ctx, raised |-> FALSE, result |-> value]
Raised(ctx) == [ctx |-> ctx, raised |-> TRUE, result |-> None]

\* A failed flush rolls the transaction back; the session then refuses every
\* statement until rollback() is called on it.
FlushFailed(ctx) == [ctx EXCEPT !.state = "inactive", !.pending = NoRows]

\* session.flush()
flush(db, ctx) ==
    IF ctx.state # "active" THEN Raised(ctx)
    ELSE IF ConstraintsOk(db, ctx) THEN Returned(ctx, None)
    ELSE Raised(FlushFailed(ctx))

\* session.add(row): the row gets the next id of its table's sequence.
Add(ctx, tbl, row) ==
    [ctx EXCEPT !.pending[tbl] = @ \cup {[id |-> ctx.next_id[tbl]] @@ row},
                !.next_id[tbl] = @ + 1]

\* An attribute of a loaded row is set.
Put(ctx, tbl, row) ==
    [ctx EXCEPT !.pending[tbl] = {q \in @ : q.id # row.id} \cup {row}]

\* session.add(row); session.flush(); the row is returned.
AddAndFlush(db, ctx, tbl, row) ==
    LET c == Add(ctx, tbl, row)
        r == flush(db, c)
    IN IF r.raised THEN r
       ELSE Returned(c, [id |-> ctx.next_id[tbl]] @@ row)

\* session.query(Model).filter_by(<unique column>=key).first(): the set of
\* matching rows, empty for None.
FirstByKey_Miss(rows, tbl, key) == {}
FirstByKey(rows, tbl, key) == {r \in rows : NaturalKey(tbl, r) = key}

\* setattr(existing, key, value) for every key of document_data
UpdateFields_Keep(existing, document_data) == existing
UpdateFields(existing, document_data) ==
    [existing EXCEPT !.title = document_data.title,
                     !.abstract = document_data.abstract,
                     !.publication_date = document_data.publication_date]

\* Document(**document_data) without agencies and hts_codes
NewDocument(document_data) ==
    [document_number |-> document_data.document_number,
     title |-> document_data.title,
     abstract |-> document_data.abstract,
     publication_date |-> document_data.publication_date,
     agencies |-> {}, hts_codes |-> {}]

create_document(db, ctx, document_data) ==
    IF ctx.state # "active" THEN Raised(ctx)
    ELSE LET existing == FirstByKey(Rows(db, ctx, "documents"), "documents",
                                    document_data.document_number)
         IN IF existing # {}
            THEN LET updated == UpdateFields(CHOOSE d \in existing : TRUE, document_data)
                 IN Returned(Put(ctx, "documents", updated), updated)
            ELSE AddAndFlush(db, ctx, "documents", NewDocument(document_data))

get_or_create_agency(db, ctx, slug, name) ==
    IF ctx.state # "active" THEN Raised(ctx)
    ELSE LET agency == FirstByKey(Rows(db, ctx, "agencies"), "agencies", slug)
         IN IF agency # {}
            THEN Returned(ctx, CHOOSE a \in agency : TRUE)
            ELSE AddAndFlush(db, ctx, "agencies", [slug |-> slug, name |-> name])

\* HTSCode(**hts_data)
get_or_create_hts_code(db, ctx, hts_data) ==
    IF ctx.state # "active" THEN Raised(ctx)
    ELSE LET hts_code == FirstByKey(Rows(db, ctx, "hts_codes"), "hts_codes",
                                    hts_data.hts_number)
         IN IF hts_code # {}
            THEN Returned(ctx, CHOOSE h \in hts_code : TRUE)
            ELSE AddAndFlush(db, ctx, "hts_codes", hts_data)

\* The elements of a list.
Range(seq) == {seq[i] : i \in 1..Len(seq)}

\* document.agencies = query(Agency).filter(Agency.slug.in_(agency_slugs)).all()
link_document_agencies(db, ctx, document_id, agency_slugs) ==
    IF ctx.state # "active" THEN Raised(ctx)
    ELSE LET found == {a.id : a \in {a \in Rows(db, ctx, "agencies") :
                                        a.slug \in Range(agency_slugs)}}
             document == CHOOSE d \in Rows(db, ctx, "documents") : d.id = document_id
         IN Returned(Put(ctx, "documents", [document EXCEPT !.agencies = found]), None)

\* document.hts_codes = query(HTSCode).filter(HTSCode.hts_number.in_(hts_numbers)).all()
link_document_hts_codes(db, ctx, document_id, hts_numbers) ==
    IF ctx.state # "active" THEN Raised(ctx)
    ELSE LET found == {h.id : h \in {h \in Rows(db, ctx, "hts_codes") :
                                        h.hts_number \in Range(hts_numbers)}}
             document == CHOOSE d \in Rows(db, ctx, "documents") : d.id = document_id
         IN Returned(Put(ctx, "documents", [document EXCEPT !.hts_codes = found]), None)

get_document_by_number(db, ctx, document_number) ==
    FirstByKey(Rows(db, ctx, "documents"), "documents", document_number)

create_ingestion_run(db, ctx, src) ==
    IF ctx.state # "active" THEN Raised(ctx)
    ELSE AddAndFlush(db, ctx, "ingestion_runs",
                     [source |-> src, status |-> "running", documents_processed |-> 0])

\* documents_processed=None
NoCount == -1

update_ingestion_run(db, ctx, run_id, status, documents_processed) ==
    IF ctx.state # "active" THEN Raised(ctx)
    ELSE LET run == {r \in Rows(db, ctx, "ingestion_runs") : r.id = run_id}
         IN IF run # {}
            THEN LET r == CHOOSE r \in run : TRUE
                     updated == [r EXCEPT !.status = status,
                                          !.documents_processed =
                                              IF documents_processed # NoCount
                                              THEN documents_processed ELSE @]
                 IN Returned(Put(ctx, "ingestion_runs", updated), None)
            ELSE Returned(ctx, None)

complete_ingestion_run(db, ctx, run_id, documents_processed) ==
    update_ingestion_run(db, ctx, run_id, "completed", documents_processed)

\* session.commit(): flush, then the session's rows are the committed rows.
CommitTables(db, ctx) == [t \in TableNames |-> Rows(db, ctx, t)]

\* The tables and the session become those of (db, ctx).
StoreBecomes(s, db, ctx) ==
    /\ documents' = db.documents
    /\ agencies_table' = db.agencies
    /\ hts_codes_table' = db.hts_codes
    /\ ingestion_runs' = db.ingestion_runs
    /\ next_id' = ctx.next_id
    /\ sessions' = [sessions EXCEPT ![s] = [state |-> ctx.state, pending |-> ctx.pending]]

(***************************************************************************)
(* Store operations called through sessions (SpecStore: one session,       *)
(* SpecStoreConcurrent: two sessions whose statements interleave)          *)
(***************************************************************************)
DocumentNumbers == {"2024-001", "2024-002"}
Titles == {"t1", "t2"}
AgencyName(slug) == IF slug = "cbp" THEN "CBP" ELSE "USTR"

\* The calls made on a store: the operation and its argument.
StoreCalls ==
    {[op |-> "create_document", tbl |-> "documents",
      data |-> [document_number |-> n, title |-> t, abstract |-> "abstract",
                publication_date |-> "2024-01-01"]] :
        n \in DocumentNumbers, t \in Titles}
    \cup {[op |-> "get_or_create_agency", tbl |-> "agencies",
           data |-> [slug |-> a, name |-> AgencyName(a)]] : a \in {"cbp"}}
    \cup {[op |-> "get_or_create_hts_code", tbl |-> "hts_codes",
           data |-> [hts_number |-> c, indent_level |-> 2, description |-> "cheese",
                     parent_hts_number |-> None]] : c \in {"0406.10.00"}}

\* The value of the unique column in the argument of a call.
CallKey(call) ==
    CASE call.op = "create_document" -> call.data.document_number
      [] call.op = "get_or_create_agency" -> call.data.slug
      [] OTHER -> call.data.hts_number

\* The row a call adds when its lookup found none.
CallRow(call) ==
    IF call.op = "create_document" THEN NewDocument(call.data) ELSE call.data

\* SessionLocal()
OpenSession(s) ==
    /\ sessions[s].state = "closed"
    /\ sessions' = [sessions EXCEPT ![s].state = "active"]
    /\ UNCHANGED <<storeVars, agencies_table, hts_codes_table, ingestion_runs,
                   next_id, store_call, runVars, otherThanStore>>

\* The first statement of create_document / get_or_create_agency /
\* get_or_create_hts_code: the query for an existing row.
BeginStoreCall(s, call) ==
    /\ sessions[s].state \in {"active", "inactive"}
    /\ store_call[s].pc = "idle"
    /\ store_call' = [store_call EXCEPT ![s] =
          IF sessions[s].state = "inactive"
          THEN [pc |-> "raised", op |-> call.op, tbl |-> call.tbl, data |-> call.data,
                found |-> {}, result |-> 0]
          ELSE [pc |-> "looked_up", op |-> call.op, tbl |-> call.tbl, data |-> call.data,
                found |-> FirstByKey(Rows(Committed, Ctx(s), call.tbl), call.tbl,
                                     CallKey(call)),
                result |-> 0]]
    /\ UNCHANGED <<storeVars, agencies_table, hts_codes_table, ingestion_runs,
                   next_id, sessions, runVars, otherThanStore>>

\* Another transaction holds an uncommitted row with the same unique value:
\* the INSERT waits for that transaction to end.
InsertBlocked(s, tbl, key) ==
    \E o \in SessionIds \ {s} :
        \E q \in sessions[o].pending[tbl] :
            /\ NaturalKey(tbl, q) = key
            /\ \A c \in Committed[tbl] : c.id # q.id

\* The rest of the call: the existing row is updated / returned, or a new
\* row is added and flushed.
FinishStoreCall(s) ==
    /\ store_call[s].pc = "looked_up"
    /\ LET call == store_call[s]
           ctx == Ctx(s)
       IN IF call.found # {}
          THEN LET existing == CHOOSE r \in call.found : TRUE
                   after == IF call.op = "create_document"
                            THEN Put(ctx, "documents", UpdateFields(existing, call.data))
                            ELSE ctx
               IN /\ store_call' = [store_call EXCEPT ![s].pc = "returned",
                                                      ![s].result = existing.id]
                  /\ StoreBecomes(s, Committed, after)
          ELSE /\ ~InsertBlocked(s, call.tbl, CallKey(call))
               /\ next_id[call.tbl] <= MaxRowId
               /\ LET r == AddAndFlush(Committed, ctx, call.tbl, CallRow(call))
                  IN /\ store_call' = [store_call EXCEPT
                            ![s].pc = IF r.raised THEN "raised" ELSE "returned",
                            ![s].result = IF r.raised THEN 0 ELSE r.result.id]
                     /\ StoreBecomes(s, Committed, r.ctx)
    /\ UNCHANGED <<qdrant_points, runVars, otherThanStore>>

\* The caller has the row or the exception.
ReturnFromStoreCall(s) ==
    /\ store_call[s].pc \in {"returned", "raised"}
    /\ store_call' = [store_call EXCEPT ![s] = NoCall]
    /\ UNCHANGED <<storeVars, agencies_table, hts_codes_table, ingestion_runs,
                   next_id, sessions, runVars, otherThanStore>>

\* session.commit()
CommitSession(s) ==
    /\ sessions[s].state = "active"
    /\ store_call[s].pc = "idle"
    /\ LET r == flush(Committed, Ctx(s))
       IN IF r.raised
          THEN StoreBecomes(s, Committed, r.ctx)
          ELSE StoreBecomes(s, CommitTables(Committed, Ctx(s)),
                            [Ctx(s) EXCEPT !.pending = NoRows])
    /\ UNCHANGED <<qdrant_points, store_call, runVars, otherThanStore>>

\* session.rollback(): the uncommitted rows are dropped; after a failed
\* flush it makes the session usable again.
RollbackSession(s) ==
    /\ \/ sessions[s].state = "inactive"
       \/ sessions[s].state = "active" /\ sessions[s].pending # NoRows
    /\ store_call[s].pc = "idle"
    /\ sessions' = [sessions EXCEPT ![s] = [state |-> "active", pending |-> NoRows]]
    /\ UNCHANGED <<storeVars, agencies_table, hts_codes_table, ingestion_runs,
                   next_id, store_call, runVars, otherThanStore>>

RunStatuses == {"running", "completed", "failed"}
TerminalStatuses == {"completed", "failed"}

CreateIngestionRun(s, src) ==
    /\ sessions[s].state = "active"
    /\ store_call[s].pc = "idle"
    /\ next_id["ingestion_runs"] <= MaxRuns
    /\ StoreBecomes(s, Committed, create_ingestion_run(Committed, Ctx(s), src).ctx)
    /\ UNCHANGED <<qdrant_points, store_call, runVars, otherThanStore>>

UpdateIngestionRun(s, run_id, status, documents_processed) ==
    /\ sessions[s].state = "active"
    /\ store_call[s].pc = "idle"
    /\ StoreBecomes(s, Committed,
                    update_ingestion_run(Committed, Ctx(s), run_id, status,
                                         documents_processed).ctx)
    /\ UNCHANGED <<qdrant_points, store_call, runVars, otherThanStore>>

CompleteIngestionRun(s, run_id, documents_processed) ==
    /\ sessions[s].state = "active"
    /\ store_call[s].pc = "idle"
    /\ StoreBecomes(s, Committed,
                    complete_ingestion_run(Committed, Ctx(s), run_id,
                                           documents_processed).ctx)
    /\ UNCHANGED <<qdrant_points, store_call, runVars, otherThanStore>>

\* The rows of a table as session s sees them.
Visible(s, tbl) == Rows(Committed, Ctx(s), tbl)

\* The calls two concurrent sessions compete with: the same values.
RaceCalls ==
    {call \in StoreCalls :
        call.op = "create_document" =>
            call.data.document_number = "2024-001" /\ call.data.title = "t1"}

StoreStep(s, offered) ==
    \/ OpenSession(s)
    \/ /\ store_call[s].pc = "idle"
       /\ \E call \in offered : BeginStoreCall(s, call)
    \/ FinishStoreCall(s)
    \/ ReturnFromStoreCall(s)
    \/ CommitSession(s)
    \/ RollbackSession(s)

\* The ingestion-run operations of the store, called through session s.
RunRecordStep(s) ==
    \/ OpenSession(s)
    \/ \E src \in Sources : CreateIngestionRun(s, src)
    \/ \E run_id \in 1..MaxRuns, status \in RunStatuses, n \in {NoCount, 1} :
          UpdateIngestionRun(s, run_id, status, n)
    \/ \E run_id \in 1..MaxRuns : CompleteIngestionRun(s, run_id, 1)
    \/ CommitSession(s)
    \/ RollbackSession(s)

InitStore ==
    /\ qdrant_points = {}
    /\ documents = {}
    /\ SearchIdle
    /\ ChunkIdle
    /\ EmbedIdle
    /\ DbIdle
    /\ RunIdle
    /\ HybridIdle
    /\ NormIdle
    /\ FetchIdle

NextStore == StoreStep(1, StoreCalls)

SpecStore == InitStore /\ [][NextStore]_vars

NextStoreConcurrent == \E s \in SessionIds : StoreStep(s, RaceCalls)

SpecStoreConcurrent == InitStore /\ [][NextStoreConcurrent]_vars

NextRunRecords == RunRecordStep(1)

SpecRunRecords == InitStore /\ [][NextRunRecords]_vars

(***************************************************************************)
(* chunk_text and chunk_and_embed as functions (default arguments)         *)
(***************************************************************************)
\* The while loop of chunk_text from position st on (overlap < chunk_size).
RECURSIVE ChunkWindows(_, _, _, _)
ChunkWindows(ws, st, cs, ov) ==
    IF st >= Len(ws) THEN <<>>
    ELSE <<Join(PySlice(ws, st, st + cs))>> \o ChunkWindows(ws, st + cs - ov, cs, ov)

chunk_text(t, cs, ov) ==
    IF t = <<>> THEN <<>>
    ELSE LET ws == Split(t)
         IN IF Len(ws) <= cs THEN ShortTextChunks(t, ws)
            ELSE ChunkWindows(ws, 0, cs, ov)

\* chunk_and_embed(text) with the chunk size and overlap of the settings
chunk_and_embed(t) ==
    LET cs == chunk_text(t, DefaultChunkSize, DefaultChunkOverlap)
    IN IF cs = <<>> THEN <<>> ELSE Zip(cs, embed_batch(cs))

(***************************************************************************)
(* BaseIngester.run: fetch, transform, load (SpecHtsus, SpecIngest)        *)
(***************************************************************************)
ListingCodes == Codes \cup {"0406.00.00"}

\* Tariff listings: every row has a code, an indent level and a description;
\* a listing may have a parent_hts_number column (as the sample data has).
FlatRows ==
    {[hts_number |-> c, indent_level |-> l, description |-> "cheese"] :
        c \in ListingCodes, l \in 0..MaxIndent}
RowsWithParent ==
    {[hts_number |-> c, indent_level |-> l, description |-> "cheese",
      parent_hts_number |-> "0406.00.00"] : c \in ListingCodes, l \in 0..MaxIndent}
Listings ==
    UNION {[1..n -> FlatRows] \cup [1..n -> RowsWithParent] : n \in 0..MaxRows}

\* HTSUSIngester.transform
transform_htsus(listing) ==
    [i \in 1..Len(listing) |->
        [hts_number |-> listing[i].hts_number,
         indent_level |-> listing[i].indent_level,
         description |-> listing[i].description,
         parent_hts_number |-> RowGet(listing[i], "parent_hts_number")]]

\* doc.get('agencies', []) of a source record: the first version lists an
\* agency without slug before its agency, the second lists none.
SourceAgencies(version) ==
    CASE version = 1 -> <<[slug |-> None, name |-> "Treasury"],
                          [slug |-> "cbp", name |-> "CBP"]>>
      [] version = 2 -> <<>>
      [] OTHER -> <<[slug |-> "ustr", name |-> "USTR"]>>

\* transform: [agency.get('slug') for agency in ... if agency.get('slug')]
HasSlug(agency) == agency.slug # None
AgencySlugs(source_agencies) ==
    LET with_slug == SelectSeq(source_agencies, HasSlug)
    IN [i \in 1..Len(with_slug) |-> with_slug[i].slug]

\* transform: [a.get('name') for a in doc.get('agencies', [])]
AgencyNames(source_agencies) ==
    [i \in 1..Len(source_agencies) |-> source_agencies[i].name]

\* Transformed Federal Register documents (the entries of data['documents']):
\* two versions of one document number, the first naming a tariff code of
\* the schedule and one that is not in it, the second without agencies,
\* tariff codes or text, and a second document whose source record has no
\* title.
FRDocument(n, version) ==
    CASE version = 1 ->
           [document_number |-> n, title |-> "t1", abstract |-> "a1",
            publication_date |-> "2024-01-01", full_text |-> <<"a">>,
            agencies |-> AgencySlugs(SourceAgencies(version)),
            agency_names |-> AgencyNames(SourceAgencies(version)),
            hts_codes |-> <<"0406.10.00", "0406.30.00">>]
      [] version = 2 ->
           [document_number |-> n, title |-> "t2", abstract |-> "a2",
            publication_date |-> "2024-02-02", full_text |-> <<>>,
            agencies |-> AgencySlugs(SourceAgencies(version)),
            agency_names |-> AgencyNames(SourceAgencies(version)),
            hts_codes |-> <<>>]
      [] OTHER ->
           [document_number |-> n, title |-> None, abstract |-> "a1",
            publication_date |-> "2024-01-01", full_text |-> <<"a">>,
            agencies |-> AgencySlugs(SourceAgencies(version)),
            agency_names |-> AgencyNames(SourceAgencies(version)),
            hts_codes |-> <<>>]

FRDocuments ==
    {FRDocument("2024-001", v) : v \in {1, 2}} \cup {FRDocument("2024-002", 3)}

FRBatches == UNION {[1..n -> FRDocuments] : n \in 0..MaxItems}

\* run(): the statistics start as 'running'.
RunStart(kind) ==
    /\ run_pc = "idle"
    /\ run_count < MaxRuns
    /\ run_pc' = "fetch"
    /\ ingester' = kind
    /\ run_count' = run_count + 1
    /\ stats' = [status |-> "running", records_processed |-> 0, errors |-> <<>>]
    /\ UNCHANGED <<raw_data, transformed_data, item_idx, ingestion_run_id,
                   processed, errors, attempts, load_result>>
    /\ UNCHANGED <<storeVars, dbVars, otherThanStore>>

\* fetch or transform raises: run's except branch.
FetchRaises ==
    /\ run_pc = "fetch"
    /\ run_pc' = "done"
    /\ stats' = [stats EXCEPT !.status = "failed",
                              !.errors = Append(@, "fetch failed")]
    /\ UNCHANGED <<ingester, run_count, raw_data, transformed_data, item_idx,
                   ingestion_run_id, processed, errors, attempts, load_result>>
    /\ UNCHANGED <<storeVars, dbVars, otherThanStore>>

\* HTSUSIngester.fetch and transform
FetchTransformHtsus(listing) ==
    /\ run_pc = "fetch"
    /\ ingester = "htsus"
    /\ run_pc' = "load"
    /\ raw_data' = listing
    /\ transformed_data' = transform_htsus(listing)
    /\ UNCHANGED <<ingester, run_count, item_idx, ingestion_run_id, processed,
                   errors, attempts, load_result, stats>>
    /\ UNCHANGED <<storeVars, dbVars, otherThanStore>>

\* FederalRegisterIngester.fetch and transform: the API documents are taken
\* in their transformed form.
FetchTransformFR(docs) ==
    /\ run_pc = "fetch"
    /\ ingester = "federal_register"
    /\ run_pc' = "load"
    /\ transformed_data' = docs
    /\ UNCHANGED <<ingester, run_count, raw_data, item_idx, ingestion_run_id,
                   processed, errors, attempts, load_result, stats>>
    /\ UNCHANGED <<storeVars, dbVars, otherThanStore>>

\* load up to its loop: nothing to load returns False at once; otherwise a
\* session is opened and the ingestion run is created in it.
LoadBegin ==
    /\ run_pc = "load"
    /\ IF transformed_data = <<>>
       THEN /\ load_result' = FALSE
            /\ run_pc' = "loaded"
            /\ UNCHANGED <<item_idx, ingestion_run_id, processed, errors, attempts>>
            /\ UNCHANGED <<documents, dbVars>>
       ELSE LET opened == [state |-> "active", pending |-> NoRows, next_id |-> next_id]
                r == create_ingestion_run(Committed, opened, ingester)
            IN /\ StoreBecomes(1, Committed, r.ctx)
               /\ ingestion_run_id' = r.result.id
               /\ processed' = 0
               /\ errors' = <<>>
               /\ attempts' = <<>>
               /\ item_idx' = 1
               /\ run_pc' = "loading"
               /\ UNCHANGED <<store_call, load_result>>
    /\ UNCHANGED <<ingester, run_count, raw_data, transformed_data, stats>>
    /\ UNCHANGED <<qdrant_points, otherThanStore>>

\* One iteration of HTSUSIngester.load's loop.
LoadHtsCode ==
    /\ run_pc = "loading"
    /\ ingester = "htsus"
    /\ item_idx <= Len(transformed_data)
    /\ LET r == get_or_create_hts_code(Committed, Ctx(1), transformed_data[item_idx])
       IN /\ StoreBecomes(1, Committed, r.ctx)
          /\ processed' = IF r.raised THEN processed ELSE processed + 1
          /\ attempts' = Append(attempts, IF r.raised THEN "failed" ELSE "ok")
    /\ item_idx' = item_idx + 1
    /\ UNCHANGED <<ingester, run_pc, run_count, raw_data, transformed_data,
                   ingestion_run_id, errors, load_result, stats>>
    /\ UNCHANGED <<qdrant_points, store_call, otherThanStore>>

\* for agency_slug, agency_name in zip(agencies, agency_names):
\*     get_or_create_agency(agency_slug, agency_name)
RECURSIVE CreateAgencies(_, _, _, _)
CreateAgencies(db, ctx, pairs, i) ==
    IF i > Len(pairs) THEN Returned(ctx, None)
    ELSE LET r == get_or_create_agency(db, ctx, pairs[i][1], pairs[i][2])
         IN IF r.raised THEN r ELSE CreateAgencies(db, r.ctx, pairs, i + 1)

\* The statements of load's try block after create_document, each run only
\* when the ones before it did not raise.
ThenCreateAgencies(db, r, doc_data) ==
    IF r.raised THEN r
    ELSE CreateAgencies(db, r.ctx, Zip(doc_data.agencies, doc_data.agency_names), 1)

ThenLinkAgencies(db, r, document_id, doc_data) ==
    IF r.raised THEN r
    ELSE link_document_agencies(db, r.ctx, document_id, doc_data.agencies)

ThenLinkCodes(db, r, document_id, doc_data) ==
    IF r.raised \/ doc_data.hts_codes = <<>> THEN r
    ELSE link_document_hts_codes(db, r.ctx, document_id, doc_data.hts_codes)

ThenFlush(db, r) == IF r.raised THEN r ELSE flush(db, r.ctx)

\* The document as the session holds it after the statements.
ThenDocument(db, r, document_id) ==
    IF r.raised THEN r
    ELSE Returned(r.ctx, CHOOSE d \in Rows(db, r.ctx, "documents") : d.id = document_id)

LinkDocument(db, created, doc_data) ==
    ThenDocument(db,
        ThenFlush(db,
            ThenLinkCodes(db,
                ThenLinkAgencies(db,
                    ThenCreateAgencies(db, created, doc_data),
                    created.result.id, doc_data),
                created.result.id, doc_data)),
        created.result.id)

\* The relational part of one iteration of FederalRegisterIngester.load's
\* loop, up to db_session.flush().
StoreDocument(db, ctx, doc_data) ==
    LinkDocument(db, create_document(db, ctx, doc_data), doc_data)

\* QdrantStore.create_document_points: one point per chunk under a fresh id.
create_document_points(points, document, chunks_with_embeddings, codes, slugs) ==
    {[id |-> <<"uuid", Cardinality(points) + k>>,
      vector |-> chunks_with_embeddings[k][2],
      payload |-> [document_id |-> document.id,
                   document_number |-> document.document_number,
                   source |-> "federal_register",
                   title |-> document.title,
                   publication_date |-> document.publication_date,
                   text_chunk |-> chunks_with_embeddings[k][1],
                   chunk_index |-> k - 1,
                   hts_codes |-> codes,
                   agencies |-> slugs]] : k \in 1..Len(chunks_with_embeddings)}

\* client.upsert(points=new_points): a point replaces the stored point of the
\* same id and touches no other point.
upsert_points_DeleteFirst(points, new_points) ==
    {pt \in points : \A n \in new_points :
                        pt.payload.document_id # n.payload.document_id}
    \cup new_points
upsert_points(points, new_points) ==
    {pt \in points : \A n \in new_points : pt.id # n.id} \cup new_points

\* One iteration of FederalRegisterIngester.load's loop.  embed_ok: the
\* embedding model answers; upsert_ok: the vector index accepts the points.
LoadDocument(embed_ok, upsert_ok) ==
    /\ run_pc = "loading"
    /\ ingester = "federal_register"
    /\ item_idx <= Len(transformed_data)
    /\ LET doc_data == transformed_data[item_idx]
           stored == StoreDocument(Committed, Ctx(1), doc_data)
           text_chunks == chunk_text(doc_data.full_text, DefaultChunkSize,
                                     DefaultChunkOverlap)
           embed_raises == text_chunks # <<>> /\ ~embed_ok
           failed == stored.raised \/ embed_raises
           chunks_with_embeddings == chunk_and_embed(doc_data.full_text)
       IN /\ StoreBecomes(1, Committed, stored.ctx)
          /\ qdrant_points' =
                IF ~failed /\ chunks_with_embeddings # <<>> /\ upsert_ok
                THEN upsert_points(qdrant_points,
                         create_document_points(qdrant_points, stored.result,
                                                chunks_with_embeddings,
                                                doc_data.hts_codes, doc_data.agencies))
                ELSE qdrant_points
          /\ processed' = IF failed THEN processed ELSE processed + 1
          /\ errors' = IF failed
                       THEN Append(errors, IF stored.raised THEN "database error"
                                           ELSE "embedding error")
                       ELSE errors
          /\ attempts' = Append(attempts, IF failed THEN "failed" ELSE "ok")
    /\ item_idx' = item_idx + 1
    /\ UNCHANGED <<ingester, run_pc, run_count, raw_data, transformed_data,
                   ingestion_run_id, load_result, stats>>
    /\ UNCHANGED <<store_call, otherThanStore>>

\* After the loop: the run record is updated, the with block commits and
\* load returns; an exception on the way rolls the session back and load
\* returns False.
LoadFinish ==
    /\ run_pc = "loading"
    /\ item_idx > Len(transformed_data)
    /\ LET status == IF processed > 0 THEN "completed" ELSE "failed"
           updated == update_ingestion_run(Committed, Ctx(1), ingestion_run_id,
                                           status, processed)
           committed == IF updated.raised THEN updated
                        ELSE flush(Committed, updated.ctx)
           closed == [state |-> "closed", pending |-> NoRows,
                      next_id |-> committed.ctx.next_id]
       IN IF committed.raised
          THEN /\ StoreBecomes(1, Committed, closed)
               /\ load_result' = FALSE
          ELSE /\ StoreBecomes(1, CommitTables(Committed, committed.ctx), closed)
               /\ load_result' = (processed > 0)
    /\ run_pc' = "loaded"
    /\ UNCHANGED <<ingester, run_count, raw_data, transformed_data, item_idx,
                   ingestion_run_id, processed, errors, attempts, stats>>
    /\ UNCHANGED <<qdrant_points, store_call, otherThanStore>>

\* run() after load returned.
RunReturn ==
    /\ run_pc = "loaded"
    /\ run_pc' = "done"
    /\ stats' = [stats EXCEPT
                    !.status = IF load_result THEN "completed" ELSE "failed",
                    !.records_processed = Len(transformed_data)]
    /\ UNCHANGED <<ingester, run_count, raw_data, transformed_data, item_idx,
                   ingestion_run_id, processed, errors, attempts, load_result>>
    /\ UNCHANGED <<storeVars, dbVars, otherThanStore>>

\* The caller has the statistics; the ingester is ready for the next run.
RunReset ==
    /\ run_pc = "done"
    /\ run_pc' = "idle"
    /\ ingester' = "none"
    /\ raw_data' = <<>>
    /\ transformed_data' = <<>>
    /\ item_idx' = 1
    /\ ingestion_run_id' = 0
    /\ processed' = 0
    /\ errors' = <<>>
    /\ attempts' = <<>>
    /\ load_result' = FALSE
    /\ stats' = NoStats
    /\ UNCHANGED run_count
    /\ UNCHANGED <<storeVars, dbVars, otherThanStore>>

InitHtsus == InitStore

NextHtsus ==
    \/ RunStart("htsus")
    \/ FetchRaises
    \/ /\ run_pc = "fetch"
       /\ \E listing \in Listings : FetchTransformHtsus(listing)
    \/ LoadBegin
    \/ LoadHtsCode
    \/ LoadFinish
    \/ RunReturn
    \/ RunReset

SpecHtsus == InitHtsus /\ [][NextHtsus]_vars

\* The tariff code the documents mention has been loaded before.
InitIngest ==
    /\ qdrant_points = {}
    /\ documents = {}
    /\ SearchIdle
    /\ ChunkIdle
    /\ EmbedIdle
    /\ agencies_table = {}
    /\ hts_codes_table = {[id |-> 1, hts_number |-> "0406.10.00", indent_level |-> 2,
                           description |-> "cheese", parent_hts_number |-> "0406.00.00"]}
    /\ ingestion_runs = {}
    /\ next_id = [t \in TableNames |-> IF t = "hts_codes" THEN 2 ELSE 1]
    /\ sessions = [s \in SessionIds |-> [state |-> "closed", pending |-> NoRows]]
    /\ store_call = [s \in SessionIds |-> NoCall]
    /\ RunIdle
    /\ HybridIdle
    /\ NormIdle
    /\ FetchIdle

NextIngest ==
    \/ RunStart("federal_register")
    \/ FetchRaises
    \/ /\ run_pc = "fetch"
       /\ \E docs \in FRBatches : FetchTransformFR(docs)
    \/ LoadBegin
    \/ \E embed_ok \in BOOLEAN, upsert_ok \in BOOLEAN : LoadDocument(embed_ok, upsert_ok)
    \/ LoadFinish
    \/ RunReturn
    \/ RunReset

SpecIngest == InitIngest /\ [][NextIngest]_vars

(***************************************************************************)
(* HybridQuery and the StructuredQuery calls it makes (SpecHybrid)         *)
(***************************************************************************)
\* Document.publication_date >= start_date AND <= end_date: a NULL date
\* satisfies neither comparison.
InDateRange_NullPasses(d, from_date, to_date) ==
    d = NoDate \/ (from_date <= d /\ d <= to_date)
InDateRange(d, from_date, to_date) == d # NoDate /\ from_date <= d /\ d <= to_date

\* The cap search_with_date_filter passes to search_by_date_range.
DateFilterCap == 1000

\* PostgresStore.search_documents(source, start_date, end_date, limit): the
\* row sets .order_by(publication_date.desc()).limit(limit).all() can return
\* (rows of equal date come in any order).
search_documents(src, from_date, to_date, lim) ==
    LET matching == {d \in documents :
                        /\ src # None => RowGet(d, "source") = src
                        /\ InDateRange(PublicationDate(d), from_date, to_date)}
    IN {found \in SUBSET matching :
           /\ Cardinality(found) = Min(lim, Cardinality(matching))
           /\ \A x \in found, y \in matching \ found :
                 x.publication_date >= y.publication_date}

\* StructuredQuery.get_hts_code_info: the row of the code, or None.
get_hts_code_info(hts) ==
    LET hts_code == {h \in hts_codes_table : h.hts_number = hts}
    IN IF hts_code = {} THEN None
       ELSE [hts_number |-> hts, description |-> (CHOOSE h \in hts_code : TRUE).description]

\* One of the HybridQuery methods is entered.
CallHybrid(entry, l, from_date, to_date, hts, slug) ==
    /\ hybrid_pc = "idle"
    /\ search_pc = "idle"
    /\ hybrid_pc' = IF entry = "search_with_date_filter" THEN "date_range" ELSE "search"
    /\ entry_point' = entry
    /\ hybrid_limit' = l
    /\ start_date' = from_date
    /\ end_date' = to_date
    /\ hts_number' = hts
    /\ agency_slug' = slug
    /\ UNCHANGED <<document_numbers, hybrid_results>>
    /\ UNCHANGED <<searchVars, otherThanHybrid>>

\* search_with_date_filter: date_filtered_docs = search_by_date_range(...)
\* and the list of their document numbers; an error of the database leaves
\* the method.
DateRangeLookup(ok, found) ==
    /\ hybrid_pc = "date_range"
    /\ calls' = Append(calls, "search_documents")
    /\ IF ok
       THEN /\ document_numbers' = {d.document_number : d \in found}
            /\ hybrid_pc' = "search"
       ELSE /\ hybrid_pc' = "raised"
            /\ UNCHANGED document_numbers
    /\ UNCHANGED <<entry_point, start_date, end_date, hybrid_limit, hts_number,
                   agency_slug, hybrid_results>>
    /\ UNCHANGED <<search_pc, limit, hts_codes, agencies, source, query_filter,
                   qdrant_results, cand_idx, seen_documents, results, search_error>>
    /\ UNCHANGED otherThanHybrid

\* self.semantic_search.search(...) with the arguments each method passes.
HybridCallsSearch ==
    /\ hybrid_pc = "search"
    /\ CASE entry_point = "search_with_date_filter" ->
              CallSearch(hybrid_limit * 2, <<>>, <<>>, NoSource)
         [] entry_point = "search_by_hts_and_text" ->
              CallSearch(hybrid_limit, <<hts_number>>, <<>>, NoSource)
         [] OTHER ->
              CallSearch(hybrid_limit, <<>>, <<agency_slug>>, NoSource)

\* The semantic search has returned: the date filter keeps the results whose
\* document number is in document_numbers and cuts to limit; the agency
\* search returns the results as they are; the tariff search goes on to
\* get_hts_code_info.  An exception of the search leaves the method.
HybridAfterSearch ==
    /\ hybrid_pc = "search"
    /\ search_pc \in {"done", "raised"}
    /\ LET InDocumentNumbers(result) == result.document_number \in document_numbers
       IN CASE search_pc = "raised" ->
                 /\ hybrid_pc' = "raised"
                 /\ UNCHANGED hybrid_results
            [] search_pc = "done" /\ entry_point = "search_with_date_filter" ->
                 /\ hybrid_pc' = "done"
                 /\ hybrid_results' =
                       PySlice(SelectSeq(results, InDocumentNumbers), 0, hybrid_limit)
            [] search_pc = "done" /\ entry_point = "search_by_hts_and_text" ->
                 /\ hybrid_pc' = "hts_info"
                 /\ hybrid_results' = results
            [] OTHER ->
                 /\ hybrid_pc' = "done"
                 /\ hybrid_results' = results
    /\ search_pc' = "idle"
    /\ UNCHANGED <<limit, hts_codes, agencies, source, query_filter, qdrant_results,
                   cand_idx, seen_documents, results, search_error, calls>>
    /\ UNCHANGED <<entry_point, start_date, end_date, hybrid_limit, hts_number,
                   agency_slug, document_numbers>>
    /\ UNCHANGED otherThanHybrid

\* search_by_hts_and_text: hts_info = get_hts_code_info(hts_number) and
\* result['hts_filter'] = hts_info for every result.
EnrichWithHtsInfo(ok) ==
    /\ hybrid_pc = "hts_info"
    /\ calls' = Append(calls, "get_hts_code_info")
    /\ IF ok
       THEN /\ hybrid_pc' = "done"
            /\ hybrid_results' =
                  [i \in 1..Len(hybrid_results) |->
                      [document_number |-> hybrid_results[i].document_number,
                       publication_date |-> hybrid_results[i].publication_date,
                       matched_chunk |-> hybrid_results[i].matched_chunk,
                       hts_filter |-> get_hts_code_info(hts_number)]]
       ELSE /\ hybrid_pc' = "raised"
            /\ UNCHANGED hybrid_results
    /\ UNCHANGED <<entry_point, start_date, end_date, hybrid_limit, hts_number,
                   agency_slug, document_numbers>>
    /\ UNCHANGED <<search_pc, limit, hts_codes, agencies, source, query_filter,
                   qdrant_results, cand_idx, seen_documents, results, search_error>>
    /\ UNCHANGED otherThanHybrid

\* The method has returned (or raised); nothing of the call is kept.
HybridReturn ==
    /\ hybrid_pc \in {"done", "raised"}
    /\ hybrid_pc' = "idle"
    /\ entry_point' = "none"
    /\ start_date' = 1
    /\ end_date' = 1
    /\ hybrid_limit' = 1
    /\ hts_number' = None
    /\ agency_slug' = None
    /\ document_numbers' = {}
    /\ hybrid_results' = <<>>
    /\ UNCHANGED search_pc
    /\ limit' = 1
    /\ hts_codes' = <<>>
    /\ agencies' = <<>>
    /\ source' = NoSource
    /\ query_filter' = <<>>
    /\ qdrant_results' = <<>>
    /\ cand_idx' = 1
    /\ seen_documents' = {}
    /\ results' = <<>>
    /\ search_error' = "none"
    /\ calls' = <<>>
    /\ UNCHANGED otherThanHybrid

\* The stores a hybrid query runs against: chunks of three documents, of
\* which the third may be gone from the relational store and has no
\* publication date; one tariff code is in the schedule.
InitHybrid ==
    /\ qdrant_points = {Point(1, 0), Point(1, 1), Point(2, 0), Point(3, 0)}
    /\ \E existing \in {{1, 2}, {1, 2, 3}}, dates \in [{1, 2} -> Dates \cup {NoDate}] :
          documents = {[id |-> d, document_number |-> DocumentNumber(d),
                        publication_date |-> IF d = 3 THEN NoDate ELSE dates[d]] :
                       d \in existing}
    /\ agencies_table = {}
    /\ hts_codes_table = {[id |-> 1, hts_number |-> "0406.10.00", indent_level |-> 2,
                           description |-> "cheese", parent_hts_number |-> "0406.00.00"]}
    /\ ingestion_runs = {}
    /\ next_id = [t \in TableNames |-> IF t = "hts_codes" THEN 2 ELSE 1]
    /\ sessions = [s \in SessionIds |-> [state |-> "closed", pending |-> NoRows]]
    /\ store_call = [s \in SessionIds |-> NoCall]
    /\ SearchIdle
    /\ ChunkIdle
    /\ EmbedIdle
    /\ RunIdle
    /\ HybridIdle
    /\ NormIdle
    /\ FetchIdle

NextHybrid ==
    \/ /\ hybrid_pc = "idle"
       /\ \/ \E l \in 1..MaxLimit, from_date \in Dates, to_date \in Dates :
                CallHybrid("search_with_date_filter", l, from_date, to_date, None, None)
          \/ \E l \in 1..MaxLimit, hts \in Codes :
                CallHybrid("search_by_hts_and_text", l, 1, 1, hts, None)
          \/ \E l \in 1..MaxLimit, slug \in Agencies :
                CallHybrid("search_by_agency_and_text", l, 1, 1, None, slug)
    \/ /\ hybrid_pc = "date_range"
       /\ \E ok \in BOOLEAN,
             found \in search_documents(None, start_date, end_date, DateFilterCap) :
             DateRangeLookup(ok, found)
    \/ HybridCallsSearch
    \/ \E ok \in BOOLEAN : EmbedQuery(ok)
    \/ /\ search_pc = "search"
       /\ \E failed \in BOOLEAN,
             hits \in ClientSearch(qdrant_points,
                                   BuildConditions(hts_codes, agencies, source),
                                   RequestedCandidates(limit)) :
             VectorSearch(failed, hits)
    \/ HydrateCandidate
    \/ HybridAfterSearch
    \/ \E ok \in BOOLEAN : EnrichWithHtsInfo(ok)
    \/ HybridReturn

SpecHybrid == InitHybrid /\ [][NextHybrid]_vars

(***************************************************************************)
(* Claims about SemanticSearch.search (checked under SpecSearch)           *)
(***************************************************************************)

\* C1: whatever candidates the vector index returns, no two records of the
\* result list of one search call refer to the same document number.
C1_NoDuplicateDocuments ==
    \A i, j \in 1..Len(results) :
        i # j => results[i].document_number # results[j].document_number

\* C1 witness: a finished call whose candidate list held two chunks of one
\* document, of which one was emitted.
C1_Witness ==
    /\ search_pc = "done"
    /\ Len(results) >= 2
    /\ \E i, j \in 1..Len(qdrant_results) :
          /\ i < j
          /\ qdrant_results[i].payload.document_id = qdrant_results[j].payload.document_id
          /\ \E k \in 1..Len(results) : results[k].matched_chunk = qdrant_results[i].id

\* C2: a search with limit L asks the index for L candidates and returns at
\* most L records.
C2_AtMostLimit ==
    /\ Len(qdrant_results) <= limit
    /\ Len(results) <= Len(qdrant_results)
    /\ Len(results) <= limit

\* C2 witness: a finished call that returned exactly `limit` >= 2 records.
C2_Witness ==
    /\ search_pc = "done"
    /\ limit >= 2
    /\ Len(results) = limit

\* C3 (as claimed): the filter is a conjunction across the supplied
\* categories and a disjunction inside a category: a point satisfies the
\* filter built by QdrantStore.search exactly when, for every supplied
\* category, its payload contains any one of the supplied values.
ClaimedFilter(payload, hts, ags, src) ==
    /\ Len(hts) > 0 => \E i \in 1..Len(hts) : hts[i] \in payload.hts_codes
    /\ Len(ags) > 0 => \E i \in 1..Len(ags) : ags[i] \in payload.agencies
    /\ src # NoSource => payload.source = src

C3_OrWithinCategory ==
    search_pc \in {"hydrate", "done"} =>
        \A p \in qdrant_points :
            SatisfiesFilter(p.payload, query_filter)
                <=> ClaimedFilter(p.payload, hts_codes, agencies, source)

\* C4: when the vector-index call fails, QdrantStore.search returns [] and
\* SemanticSearch.search returns [] without raising and without a relational
\* lookup: the same return value as a search without matches.
C4_VectorFailureReturnsEmpty ==
    /\ search_error = "qdrant" =>
          /\ search_pc = "done"
          /\ qdrant_results = <<>>
          /\ results = <<>>
          /\ calls = <<"embed_text", "qdrant_search">>
    /\ (search_pc = "done" /\ qdrant_results = <<>>) =>
          /\ results = <<>>
          /\ calls = <<"embed_text", "qdrant_search">>

\* C4 witness: a finished call whose vector-index call failed.
C4_Witness == search_pc = "done" /\ search_error = "qdrant"

\* C5 (as claimed): SemanticSearch.search never propagates an exception of
\* the query-embedding step or of the vector search step.
C5_NeverRaises == search_pc # "raised"

(***************************************************************************)
(* Claims about chunk_text and chunk_and_embed (checked under SpecChunk)   *)
(***************************************************************************)

\* C6 (as claimed): chunk_text terminates for every input: the window loop
\* only ever runs with a positive step chunk_size - overlap, a configuration
\* with overlap >= chunk_size on a text of more than chunk_size words being
\* rejected before the loop instead of being iterated.
C6_LoopOnlyWithPositiveStep ==
    chunk_pc = "loop" => chunk_size - overlap > 0

\* C7 (as claimed): for every text of at most chunk_size words, the empty
\* text included, chunk_text returns exactly one chunk, equal to the text.
C7_ShortTextOneChunk ==
    (chunk_pc = "done" /\ Len(Split(text)) <= chunk_size) => chunks = <<text>>

\* C7 (amended): for every non-empty text of at most chunk_size words,
\* whitespace-only text included, chunk_text returns exactly one chunk, equal
\* to the text; for the empty text it returns no chunk.
C7_NonEmptyShortTextOneChunk ==
    (chunk_pc = "done" /\ Len(Split(text)) <= chunk_size) =>
        chunks = IF text = <<>> THEN <<>> ELSE <<text>>

\* C7 witness: a finished direct call on a two-word text that is not the
\* single-space join of its words, returned unchanged as the only chunk.
C7_Witness ==
    /\ chunk_pc = "done"
    /\ caller = "chunk_text"
    /\ Len(Split(text)) = 2
    /\ chunk_size >= 2
    /\ text # Join(Split(text))
    /\ chunks = <<text>>

\* ceil(a / b) for b > 0
CeilDiv(a, b) == (a + b - 1) \div b

\* C8 (as claimed): for a text of N > chunk_size words and
\* 0 <= overlap < chunk_size, chunk_text returns
\* ceil((N - overlap) / (chunk_size - overlap)) chunks.
C8_ChunkCount ==
    LET N == Len(Split(text))
    IN (chunk_pc = "done" /\ N > chunk_size /\ 0 <= overlap /\ overlap < chunk_size) =>
           Len(chunks) = CeilDiv(N - overlap, chunk_size - overlap)

\* list[-k:] and list[:k] for k >= 0
LastWords(ws, k) == IF k = 0 THEN <<>> ELSE PySlice(ws, 0 - k, Len(ws))
FirstWords(ws, k) == PySlice(ws, 0, k)

\* C9 (as claimed): for a text of N > chunk_size words and
\* overlap < chunk_size with N - overlap divisible by chunk_size - overlap,
\* chunk i+1 is the window starting chunk_size - overlap words after chunk i,
\* and the last `overlap` words of chunk i are the first `overlap` words of
\* chunk i+1, for every consecutive pair of chunks.
C9_ConsecutiveChunksShareOverlap ==
    LET ws == Split(text)
        N == Len(ws)
        step == chunk_size - overlap
    IN (chunk_pc = "done" /\ N > chunk_size /\ overlap < chunk_size
          /\ (N - overlap) % step = 0) =>
           \A i \in 1..(Len(chunks) - 1) :
               /\ chunks[i + 1] = Join(PySlice(ws, i * step, i * step + chunk_size))
               /\ LastWords(Split(chunks[i]), overlap)
                     = FirstWords(Split(chunks[i + 1]), overlap)

\* C10 (as claimed): chunk_and_embed returns an empty sequence for every
\* text that is empty or consists only of whitespace.
C10_BlankTextNoEmbedding ==
    (chunk_pc = "done" /\ caller = "chunk_and_embed" /\ Split(text) = <<>>) =>
        embedded = <<>>

(***************************************************************************)
(* Claims about EmbeddingGenerator.embed_batch (checked under SpecEmbed)   *)
(***************************************************************************)
\* C11: for every list of texts and every batch size >= 1, embed_batch
\* returns a list as long as its input whose i-th vector is the embedding of
\* the i-th normalized text: nothing is reordered, duplicated or dropped,
\* also when the length is not a multiple of the batch size.
C11_EmbedBatchKeepsOrder ==
    embed_pc = "done" =>
        /\ Len(embeddings) = Len(embed_texts)
        /\ \A i \in 1..Len(embed_texts) :
              embeddings[i] = Encode(normalize_text(embed_texts[i]))

\* Three different texts embedded in batches of two: the last batch is short.
C11_Witness ==
    /\ embed_pc = "done"
    /\ Len(embed_texts) = 3
    /\ batch_size = 2
    /\ Cardinality({normalize_text(embed_texts[i]) : i \in 1..3}) = 3
    /\ Len(embeddings) = 3

(***************************************************************************)
(* Claims about PostgresStore (SpecStore, SpecStoreConcurrent)             *)
(***************************************************************************)
KeyedTables == {"documents", "agencies", "hts_codes"}

UniqueKeys(s) ==
    \A tbl \in KeyedTables :
        \A r, q \in Visible(s, tbl) :
            NaturalKey(tbl, r) = NaturalKey(tbl, q) => r.id = q.id

\* A call whose unique value is already stored returns the stored row's id
\* and leaves the set of rows as it was.
RepeatReturnsSameRow(s) ==
    LET call == store_call[s]
        stored == {r \in Visible(s, call.tbl) : NaturalKey(call.tbl, r) = CallKey(call)}
    IN (call.pc = "looked_up" /\ store_call'[s].pc # "looked_up" /\ stored # {}) =>
          /\ store_call'[s].pc = "returned"
          /\ \A r \in stored : store_call'[s].result = r.id
          /\ {r.id : r \in Visible(s, call.tbl)'} = {r.id : r \in Visible(s, call.tbl)}

\* C13: through one store session, any sequence of create_document,
\* get_or_create_agency and get_or_create_hts_code calls leaves at most one
\* row per document number, agency slug and tariff code number, and a call
\* with an already stored value returns the row with the id the first call
\* gave it and adds no row.
C13_OneRowPerNaturalKey ==
    [](UniqueKeys(1) /\ store_call[1].pc # "raised") /\ [][RepeatReturnsSameRow(1)]_vars

\* create_document was called again with a stored number and returned.
C13_Witness ==
    /\ store_call[1].pc = "returned"
    /\ store_call[1].op = "create_document"
    /\ store_call[1].found # {}
    /\ \E d \in Visible(1, "documents") :
          d.id = store_call[1].result /\ d.title = store_call[1].data.title

\* C14: when two sessions interleave the lookup and the insert of the same
\* natural key, there is still at most one row per key and no call ends in
\* a uniqueness violation.
C14_NoUniquenessViolation ==
    /\ \A tbl \in KeyedTables :
          \A r, q \in Committed[tbl] :
              NaturalKey(tbl, r) = NaturalKey(tbl, q) => r.id = q.id
    /\ \A s \in SessionIds : store_call[s].pc # "raised"

\* C16: an ingestion run is created with status 'running' and, once its
\* status is 'completed' or 'failed', no store operation changes the status
\* again.
C16_TerminalStatusIsFinal ==
    [][\A r \in Visible(1, "ingestion_runs") :
          r.status \in TerminalStatuses =>
              \A q \in Visible(1, "ingestion_runs")' : q.id = r.id => q.status = r.status]_vars

(***************************************************************************)
(* Claims about the HTSUS pipeline (checked under SpecHtsus)               *)
(***************************************************************************)
\* The parent the listing order gives row i: the code of the most recent
\* earlier row with a smaller indent level, none when there is no such row.
InferredParent(listing, i) ==
    LET shallower == {j \in 1..(i - 1) :
                         listing[j].indent_level < listing[i].indent_level}
    IN IF shallower = {} THEN None
       ELSE listing[CHOOSE j \in shallower : \A k \in shallower : k <= j].hts_number

\* A first, completed load of a listing of distinct (code, indent level) rows.
FlatListingLoaded ==
    /\ ingester = "htsus"
    /\ run_pc = "done"
    /\ run_count = 1
    /\ stats.status = "completed"
    /\ \A i \in 1..Len(raw_data) : "parent_hts_number" \notin DOMAIN raw_data[i]
    /\ \A i, j \in 1..Len(raw_data) :
          raw_data[i].hts_number = raw_data[j].hts_number => i = j

\* C12: after tariff codes are ingested from a flat listing of (code, indent
\* level) rows, the parent stored for each code is the one inferred from
\* the listing order (the most recent earlier code at a smaller level), and
\* none when there is no such code.
C12_ParentInferredFromListing ==
    FlatListingLoaded =>
        \A i \in 1..Len(raw_data) :
            \E h \in hts_codes_table :
                /\ h.hts_number = raw_data[i].hts_number
                /\ h.parent_hts_number = InferredParent(raw_data, i)

(***************************************************************************)
(* Claims about the Federal Register pipeline (checked under SpecIngest)   *)
(***************************************************************************)
\* Item i of the batch was loaded without error and no later item of the
\* batch has its document number.
LatestLoaded(i) ==
    /\ i \in 1..Len(attempts)
    /\ attempts[i] = "ok"
    /\ \A j \in (i + 1)..Len(transformed_data) :
          transformed_data[j].document_number # transformed_data[i].document_number

\* A session opened after load returned.
NewSession == [state |-> "active", pending |-> NoRows, next_id |-> next_id]

LoadReturnedTrue == run_pc \in {"loaded", "done"} /\ load_result

\* C15: after load processed a document number, the document's agency set
\* is the agencies of the latest load and its tariff-code set is the codes
\* of the latest load that exist in the store, also when the latest load
\* carries no agencies or no tariff codes.
C15_LinksReplaced ==
    LoadReturnedTrue =>
        \A i \in 1..Len(transformed_data) :
            LatestLoaded(i) =>
                \A d \in get_document_by_number(Committed, NewSession,
                                                 transformed_data[i].document_number) :
                    /\ d.agencies = {a.id : a \in {a \in agencies_table :
                                         a.slug \in Range(transformed_data[i].agencies)}}
                    /\ d.hts_codes = {h.id : h \in {h \in hts_codes_table :
                                         h.hts_number \in Range(transformed_data[i].hts_codes)}}

\* C17: every run leaves exactly one persisted ingestion run record, in a
\* terminal status; a run that failed leaves a record with status 'failed'.
C17_OneTerminalRecordPerRun ==
    run_pc = "done" =>
        /\ Cardinality(ingestion_runs) = run_count
        /\ \A r \in ingestion_runs : r.status \in TerminalStatuses
        /\ stats.status = "failed" =>
               \E r \in ingestion_runs : r.id = ingestion_run_id /\ r.status = "failed"

\* C18: a failure while loading one item does not abort the batch: every
\* item is attempted and every item loaded without error is persisted when
\* load returns.
C18_FailureIsolated ==
    (run_pc = "loaded" /\ transformed_data # <<>>) =>
        /\ Len(attempts) = Len(transformed_data)
        /\ \A i \in 1..Len(attempts) :
              attempts[i] = "ok" =>
                  get_document_by_number(Committed, NewSession,
                                         transformed_data[i].document_number) # {}

\* C19: the statistics run returns hold one error entry for every item that
\* failed during load.
C19_ItemErrorsReturned ==
    (run_pc = "done" /\ transformed_data # <<>>) =>
        Len(stats.errors) = Cardinality({i \in 1..Len(attempts) : attempts[i] # "ok"})

C21_DateFilterInclusive ==
    (hybrid_pc = "done" /\ entry_point = "search_with_date_filter") =>
        \A i \in 1..Len(hybrid_results) :
            \E d \in documents :
                /\ d.document_number = hybrid_results[i].document_number
                /\ PublicationDate(d) # NoDate
                /\ start_date <= PublicationDate(d)
                /\ PublicationDate(d) <= end_date
                /\ hybrid_results[i].publication_date = isoformat(PublicationDate(d))

\* A one-day range returned a document of that day, while the semantic
\* search had also found a document of another day or without date.
C21_Witness ==
    /\ hybrid_pc = "done"
    /\ entry_point = "search_with_date_filter"
    /\ start_date = end_date
    /\ hybrid_results # <<>>
    /\ \E d \in documents :
          /\ d.id \in seen_documents
          /\ d.document_number \notin document_numbers

\* C23: the calls of one retrieval call are one query embedding, then one
\* vector-index search, then relational lookups only, at most one document
\* lookup per deduplicated candidate; no relational lookup comes before the
\* embedding call.
RelationalLookups == {"get_document_by_id", "search_documents", "get_hts_code_info"}

C23_EmbedThenSearchThenLookups ==
    /\ calls # <<>> => calls[1] = "embed_text"
    /\ Len(calls) >= 2 => calls[2] = "qdrant_search"
    /\ \A i \in 3..Len(calls) : calls[i] \in RelationalLookups
    /\ Cardinality({i \in 1..Len(calls) : calls[i] = "get_document_by_id"})
          <= Cardinality(seen_documents)
    /\ hybrid_pc = "done" => Len(calls) >= 2

(***************************************************************************)
(* Text normalization (SpecNormalize)                                      *)
(***************************************************************************)
\* C22: the output of normalize_text has no two consecutive whitespace
\* characters, also when a removed character stood between two whitespace
\* characters.
C22_NoConsecutiveWhitespace ==
    norm_pc = "done" =>
        \A i \in 1..(Len(norm_result) - 1) :
            ~(norm_result[i] \in Whitespace /\ norm_result[i + 1] \in Whitespace)

(***************************************************************************)
(* Retried fetches (SpecFetch)                                             *)
(***************************************************************************)
\* The last attempt made for the current page.
LastOutcome == outcomes[Len(outcomes)]

\* Another attempt follows only a retried error, the attempts are counted
\* one by one, a result ends them, and a retried error on the last allowed
\* attempt (or any other error) is raised to the caller.
RetryDiscipline(allowed) ==
    /\ Len(outcomes) = attempt_number
    /\ \A i \in 1..(Len(outcomes) - 1) : ShouldRetry(outcomes[i])
    /\ fetch_pc = "wait" => ShouldRetry(LastOutcome) /\ attempt_number < allowed
    /\ (fetch_pc = "attempt" /\ outcomes # <<>>) =>
          ShouldRetry(LastOutcome) /\ attempt_number < allowed
    /\ fetch_pc \in {"fetched", "returned"} => LastOutcome = "ok"
    /\ fetch_pc = "raised" =>
          \/ LastOutcome = "OtherError"
          \/ ShouldRetry(LastOutcome) /\ attempt_number >= allowed

C25_PointsOnlyAdded ==
    [][/\ qdrant_points \subseteq qdrant_points'
       /\ \A new \in qdrant_points' \ qdrant_points :
             \A old \in qdrant_points : old.id # new.id]_vars

\* One document number was loaded twice with text: the index holds two points
\* for chunk 0 of the same document.
C25_Witness ==
    \E first \in qdrant_points, second \in qdrant_points :
        /\ first.id # second.id
        /\ first.payload.document_id = second.payload.document_id
        /\ first.payload.chunk_index = second.payload.chunk_index

(***************************************************************************)
(* chunk_and_embed and its arguments (SpecChunk)                           *)
(***************************************************************************)
\* C26: chunk_and_embed chunks with exactly the chunk_size and overlap the
\* caller passed, overlap = 0 included, the settings standing in only for
\* arguments that were not supplied; the chunk texts of its result are
\* chunk_text(text, chunk_size, overlap) in order.
C26_ChunksWithPassedArguments ==
    (caller = "chunk_and_embed" /\ chunk_pc # "idle") =>
        LET cs == IF passed_chunk_size = NotSupplied THEN DefaultChunkSize
                  ELSE passed_chunk_size
            ov == IF passed_overlap = NotSupplied THEN DefaultChunkOverlap
                  ELSE passed_overlap
        IN /\ chunk_size = cs
           /\ overlap = ov
           /\ (chunk_pc = "done" /\ cs >= 1 /\ ov < cs) =>
                 [i \in 1..Len(embedded) |-> embedded[i][1]] = chunk_text(text, cs, ov)

\* The points a search filtered on tariff code h can return, and the codes
\* the relational store links to a document.
HitsForCode(h) == {pt \in qdrant_points : h \in Range(pt.payload.hts_codes)}
LinkedCodes(d) == {row.hts_number : row \in {r \in hts_codes_table : r.id \in d.hts_codes}}

\* C27: after any sequence of loads, every document a search filtered on
\* tariff code h returns lists h among its own hts_codes: the codes in the
\* payload of a document's chunks are exactly the codes linked to it.
C27_PayloadCodesAreLinkedCodes ==
    run_pc \in {"idle", "loaded", "done"} =>
        \A pt \in qdrant_points, d \in documents :
            d.id = pt.payload.document_id =>
                /\ \A h \in Codes : pt \in HitsForCode(h) => h \in LinkedCodes(d)
                /\ Range(pt.payload.hts_codes) = LinkedCodes(d)

\* C28: a document is counted in documents_processed only if its chunk
\* points were stored in the vector index: an item with text that was counted
\* has its points in the index.
C28_ProcessedMeansIndexed ==
    run_pc \in {"loading", "loaded"} =>
        /\ processed = Cardinality({i \in 1..Len(attempts) : attempts[i] = "ok"})
        /\ \A i \in 1..Len(attempts) :
              (attempts[i] = "ok" /\ chunk_and_embed(transformed_data[i].full_text) # <<>>) =>
                  \E pt \in qdrant_points :
                      /\ pt.payload.document_number = transformed_data[i].document_number
                      /\ pt.payload.title = transformed_data[i].title

\* C29: after every execution of load, committed or rolled back, every
\* point of the vector index carries the id of a document that exists in the
\* relational store.
C29_NoOrphanPoints ==
    run_pc \in {"loaded", "done"} =>
        \A pt \in qdrant_points :
            \E d \in documents : d.id = pt.payload.document_id

\* C30: every agency row a load created has the display name that belongs to
\* its slug in the source record, also when the source lists an agency
\* without slug.
C30_AgencyNameOfItsSlug ==
    \A a \in agencies_table :
        \E version \in 1..3 :
            \E i \in 1..Len(SourceAgencies(version)) :
                /\ SourceAgencies(version)[i].slug = a.slug
                /\ SourceAgencies(version)[i].name = a.name

====
